---- MODULE Spec2Model ----
(***************************************************************************)
(* Model of the teeworlds master status poller (src/main.py): the          *)
(* MasterCountProtocol datagram protocol, the query_master session, the    *)
(* update() fan-out/fan-in and the main() poll loop.                       *)
(*                                                                         *)
(* Time is discrete.  Every reading of time.monotonic() in the code is a   *)
(* difference to an earlier reading, so the model keeps clocks: `elapsed`  *)
(* is time.monotonic() - time_start, `timer` and `sleepLeft` are the time  *)
(* left on the handles of wait_for and asyncio.sleep.  Callbacks that the  *)
(* event loop has ready (a fired timer, a finished wait) run before time   *)
(* advances; address resolution inside create_datagram_endpoint takes a    *)
(* bounded but otherwise arbitrary time.                                   *)
(*                                                                         *)
(* A step that resolves protocol.waiter also wakes wait_for and lets       *)
(* query_master return: the callbacks of the same session that the loop    *)
(* can run in between find the waiter done and change nothing, and they    *)
(* stay possible afterwards because the transport is never closed.         *)
(* wait_for returns the waiter's outcome whenever the waiter is done when  *)
(* it wakes, and cancels the waiter when the timeout handle ran first.     *)
(*                                                                         *)
(* Spec is one call of update() with every kind of datagram; LoopSpec is   *)
(* the poll loop of main() over several cycles with the masters' regular   *)
(* response.  FairSpec and FairLoopSpec add weak fairness of the steps the *)
(* event loop and the clock take on their own, for the liveness claims.    *)
(***************************************************************************)
EXTENDS Integers, Sequences, FiniteSets, TLC

\* ------------------------------------------------------------------ bounds
NumMasters      == 2   \* how many entries of the registry are modelled
MaxCycles       == 2   \* poll cycles that are started
MaxResolveDelay == 1   \* longest time create_datagram_endpoint takes

\* ------------------------------------------------- program constants
QueryTimeout  == 1     \* query_master(..., timeout=1)
SleepInterval == 10    \* asyncio.sleep(10)
PrefixFF      == 10    \* 10*b'\xff'

\* ------------------------------------------------------------ data model
None == <<>>
Some(x) == <<x>>

\* class MasterInfo: the class attributes are the defaults of an instance
MasterInfo == [name |-> "", server_count |-> None, latency |-> None, status |-> ""]

\* a task that has not returned yet holds no MasterInfo
NoResult == [name |-> "", server_count |-> None, latency |-> None, status |-> "-"]

FF(n) == [i \in 1..n |-> 255]
packet_count_request  == FF(PrefixFF) \o <<99, 111, 117, 50>>     \* b'cou2'
packet_count_response == FF(PrefixFF) \o <<115, 105, 122, 50>>    \* b'siz2'

\* the registry; a dict, so its iteration order is arbitrary
MasterOrder == <<"website", "master2", "master1", "master4", "master3">>
masters == {MasterOrder[i] : i \in 1..NumMasters}

\* code points of the registry names, for str comparison
NameChars(n) ==
  CASE n = "master1" -> <<109, 97, 115, 116, 101, 114, 49>>
    [] n = "master2" -> <<109, 97, 115, 116, 101, 114, 50>>
    [] n = "master3" -> <<109, 97, 115, 116, 101, 114, 51>>
    [] n = "master4" -> <<109, 97, 115, 116, 101, 114, 52>>
    [] n = "website" -> <<119, 101, 98, 115, 105, 116, 101>>
    [] OTHER -> <<>>

RECURSIVE SeqLess(_, _)
SeqLess(a, b) ==
  IF b = <<>> THEN FALSE
  ELSE IF a = <<>> THEN TRUE
  ELSE IF Head(a) # Head(b) THEN Head(a) < Head(b)
  ELSE SeqLess(Tail(a), Tail(b))

\* a.name < b.name, Python str ordering
NameLess(a, b) == SeqLess(NameChars(a.name), NameChars(b.name))

\* sorted(..., key=attrgetter("name")): stable insertion into a sorted list
RECURSIVE Insert(_, _)
Insert(x, s) ==
  IF s = <<>> THEN <<x>>
  ELSE IF NameLess(x, Head(s)) THEN <<x>> \o s
  ELSE <<Head(s)>> \o Insert(x, Tail(s))

\* mutant: the list is handed on in the order of the done set
sorted_unsorted(s) == s

RECURSIVE sorted(_)
sorted(s) == IF s = <<>> THEN <<>> ELSE Insert(s[Len(s)], sorted(SubSeq(s, 1, Len(s) - 1)))

\* the orders in which a set can be iterated
Orders(S) == {f \in [1..Cardinality(S) -> S] : \A i, j \in 1..Cardinality(S) : f[i] = f[j] => i = j}

\* ---------------------------------------------------------- wire format
startswith(data, p) == Len(data) >= Len(p) /\ SubSeq(data, 1, Len(p)) = p

\* struct.unpack('!H', b): two bytes, big-endian; anything else is struct.error
UnpackOk(b) == Len(b) = 2
\* mutant: the two bytes read little-endian
UnpackLittle(b) == b[2] * 256 + b[1]
Unpack(b) == b[1] * 256 + b[2]

\* the response the masters send during the poll loop
LoopDatagrams == { packet_count_response \o <<1, 0>> }

\* datagrams that can arrive on a socket
Datagrams ==
  { packet_count_response \o <<1, 0>>,
    packet_count_response \o <<255, 255>>,
    packet_count_response \o <<0, 0>>,
    packet_count_response,
    packet_count_request \o <<0, 1>>,
    packet_count_response \o <<7>>,
    packet_count_response \o <<0, 1, 2>> }

\* mutant: datagram_received without the startswith test
datagram_received_anyprefix(data, since_start) ==
  IF Len(data) <= Len(packet_count_response)
  THEN [act |-> "return", info |-> NoResult]
  ELSE LET response == SubSeq(data, Len(packet_count_response) + 1, Len(data))
       IN IF ~UnpackOk(response)
          THEN [act |-> "raise", info |-> NoResult]
          ELSE [act |-> "set_result",
                info |-> [MasterInfo EXCEPT !.latency = Some(since_start),
                                            !.server_count = Some(Unpack(response)),
                                            !.status = "ok"]]

\* mutant: datagram_received without line 40, the latency is never recorded
datagram_received_nolatency(data, since_start) ==
  IF Len(data) <= Len(packet_count_response) \/ ~startswith(data, packet_count_response)
  THEN [act |-> "return", info |-> NoResult]
  ELSE LET response == SubSeq(data, Len(packet_count_response) + 1, Len(data))
       IN IF ~UnpackOk(response)
          THEN [act |-> "raise", info |-> NoResult]
          ELSE [act |-> "set_result",
                info |-> [MasterInfo EXCEPT !.server_count = Some(Unpack(response)),
                                            !.status = "ok"]]

\* MasterCountProtocol.datagram_received, up to the call of set_result;
\* since_start is time.monotonic() - self.time_start
datagram_received(data, since_start) ==
  IF Len(data) <= Len(packet_count_response) \/ ~startswith(data, packet_count_response)
  THEN [act |-> "return", info |-> NoResult]
  ELSE LET response == SubSeq(data, Len(packet_count_response) + 1, Len(data))
       IN IF ~UnpackOk(response)
          THEN [act |-> "raise", info |-> NoResult]
          ELSE [act |-> "set_result",
                info |-> [MasterInfo EXCEPT !.latency = Some(since_start),
                                            !.server_count = Some(Unpack(response)),
                                            !.status = "ok"]]

\* ------------------------------------------------------------- rendering
\* one printed line: the tag it opens and the text of its cells
Line(tag, cells) == [tag |-> tag, cells |-> cells]

\* "not x" for the values a MasterInfo field takes: None, 0 and 0.0 are false
Falsy(field) == field = None \/ field[1] = 0

\* "{servers}".format(...) and "{lat_ms:.0f}ms".format(lat_ms=latency*1000)
FormatServers(server_count) == ToString(server_count)
FormatLatency(latency) == ToString(latency * 1000) \o "ms"

\* the <tr> that html_print prints for one MasterInfo, lines 76-79
html_row(masterinfo) ==
  IF Falsy(masterinfo.server_count) \/ Falsy(masterinfo.latency)
  THEN Line("tr", <<masterinfo.name, masterinfo.status, "-", "-">>)
  ELSE Line("tr", <<masterinfo.name, masterinfo.status,
                    FormatServers(masterinfo.server_count[1]),
                    FormatLatency(masterinfo.latency[1])>>)

\* html_print: the opening lines, one row per MasterInfo, the closing lines
html_print(infos) ==
  <<Line("div", <<>>), Line("table", <<"Name", "Status", "Servers", "Latency">>)>>
    \o [i \in 1..Len(infos) |-> html_row(infos[i])]
    \o <<Line("/table", <<>>), Line("/div", <<>>)>>

\* ------------------------------------------------------------------ state
VARIABLES
  cycle,        \* number of update() calls started by main()
  loopPc,       \* position of main(): "loop", "wait", "write", "sleep"; "stopped"
                \* once an exception has left update()
  age,          \* time since update() created its tasks
  sleepLeft,    \* time left of asyncio.sleep(10)
  masterinfos,  \* the sorted list update() hands to html_print
  printed,      \* the lines html_print wrote during this call of update()
  pc,           \* position of each query_master task of the current cycle
  sock,         \* the session's datagram transport exists (it is never closed)
  stale,        \* open transports left behind by the sessions of earlier cycles
  waiter,       \* protocol.waiter, the asyncio.Future of the session's protocol
  elapsed,      \* time.monotonic() - protocol.time_start, while the session runs
  timer,        \* time left on the timeout handle armed by asyncio.wait_for
  sent,         \* the packets the session handed to transport.sendto, in order
  result,       \* the MasterInfo returned by each query_master task
  cbExc,        \* exceptions raised inside protocol callbacks (logged by the loop)
  first,        \* history: the first resolving event seen by each session
  junk,         \* history: sessions that saw a non-matching datagram while unresolved
  late,         \* history: an earlier cycle's socket saw an event during this cycle
  prevFailed,   \* history: every endpoint ended the previous cycle in timeout or error
  delivered,    \* history: snapshots handed to html_print
  idle          \* history: time since the last update() returned

vars == <<cycle, loopPc, age, sleepLeft, masterinfos, printed, pc, sock, stale, waiter, elapsed,
          timer, sent, result, cbExc, first, junk, late, prevFailed, delivered, idle>>

sessionVars == <<pc, sock, stale, waiter, elapsed, timer, sent, result>>
loopVars == <<cycle, loopPc, age, sleepLeft, masterinfos, printed, delivered, idle>>
histVars == <<first, junk, late, prevFailed>>

Pending == [st |-> "pending", info |-> NoResult]
\* the waiter of a protocol whose session has returned: resolved or cancelled
Retired == [st |-> "done", info |-> NoResult]
NoEvent == [ev |-> "none", data |-> <<>>]

\* mutant: the waiter is a class attribute, shared with the earlier protocols
NewWaiterShared(n) ==
  IF stale[n] > 0 THEN [st |-> "cancelled", info |-> NoResult] ELSE Pending

\* MasterCountProtocol.__init__: every protocol instance owns a new Future
NewWaiter(n) == Pending

\* mutant: a future that takes a value whenever it is given one
FutureSetAgain(f, value) == [fut |-> value, raised |-> {}]

\* Future.set_result / Future.set_exception: only a pending future takes a value
FutureSet(f, value) ==
  IF f.st = "pending" THEN [fut |-> value, raised |-> {}]
  ELSE [fut |-> f, raised |-> {"InvalidStateError"}]

\* mutant: query_master without the except asyncio.TimeoutError clause
query_master_timeout_error(name, outcome, info) ==
  LET masterinfo == CASE outcome = "result" -> info
                      [] OTHER -> [MasterInfo EXCEPT !.status = "error"]
  IN [masterinfo EXCEPT !.name = name]

\* mutant: query_master without the bare except clause: the task ends with
\* the exception and holds no MasterInfo
query_master_reraise(name, outcome, info) ==
  CASE outcome = "result" -> [info EXCEPT !.name = name]
    [] outcome = "TimeoutError" -> [MasterInfo EXCEPT !.status = "timeout", !.name = name]
    [] OTHER -> NoResult

\* mutant: query_master without a try statement: a timeout or a failure ends
\* the task with the exception
query_master_noexcept(name, outcome, info) ==
  IF outcome = "result" THEN [info EXCEPT !.name = name] ELSE NoResult

\* the except clauses and the tail of query_master
query_master(name, outcome, info) ==
  LET masterinfo == CASE outcome = "result" -> info
                      [] outcome = "TimeoutError" -> [MasterInfo EXCEPT !.status = "timeout"]
                      [] OTHER -> [MasterInfo EXCEPT !.status = "error"]
  IN [masterinfo EXCEPT !.name = name]

\* what the claims call a well-formed response and a non-matching datagram
WellFormed(d) == Len(d) = Len(packet_count_response) + 2 /\ startswith(d, packet_count_response)
NonMatching(d) == Len(d) <= Len(packet_count_response) \/ ~startswith(d, packet_count_response)

Unresolved(n) == pc[n] \in {"creating", "waiting"} /\ first[n].ev = "none"
Note(n, e, d) == IF Unresolved(n) THEN [first EXCEPT ![n] = [ev |-> e, data |-> d]] ELSE first

Init ==
  /\ cycle = 0
  /\ loopPc = "loop"
  /\ age = 0
  /\ sleepLeft = 0
  /\ masterinfos = <<>>
  /\ printed = <<>>
  /\ pc = [n \in masters |-> "idle"]
  /\ sock = [n \in masters |-> FALSE]
  /\ stale = [n \in masters |-> 0]
  /\ waiter = [n \in masters |-> Pending]
  /\ elapsed = [n \in masters |-> None]
  /\ timer = [n \in masters |-> None]
  /\ sent = [n \in masters |-> <<>>]
  /\ result = [n \in masters |-> NoResult]
  /\ cbExc = {}
  /\ first = [n \in masters |-> NoEvent]
  /\ junk = [n \in masters |-> FALSE]
  /\ late = FALSE
  /\ prevFailed = FALSE
  /\ delivered = 0
  /\ idle = 0

\* ---------------------------------------------------------------- main()
\* update(), line 85: one query_master task per registry entry
StartUpdate ==
  /\ loopPc = "loop"
  /\ cycle < MaxCycles
  /\ cycle' = cycle + 1
  /\ age' = 0
  /\ loopPc' = "wait"
  /\ pc' = [n \in masters |-> "creating"]
  /\ late' = FALSE
  /\ UNCHANGED <<sleepLeft, masterinfos, printed, sock, stale, waiter, elapsed, timer, sent, result,
                 cbExc, first, junk, prevFailed, delivered, idle>>

\* the only update() call of a run that is stopped after one cycle
FirstUpdate == cycle = 0 /\ StartUpdate

\* mutant: asyncio.wait(..., return_when=FIRST_COMPLETED): update() goes on
\* with the tasks that are done and leaves the others pending
UpdateCollectFirstCompleted ==
  /\ loopPc = "wait"
  /\ \E n \in masters : pc[n] = "done"
  /\ LET done == {n \in masters : pc[n] = "done"}
     IN \E order \in Orders(done) :
          masterinfos' = sorted([i \in 1..Cardinality(done) |-> result[order[i]]])
  /\ printed' = html_print(masterinfos')
  /\ loopPc' = "write"
  /\ delivered' = delivered + 1
  /\ UNCHANGED <<cycle, age, sleepLeft, idle, sessionVars, cbExc, histVars>>

\* update(), lines 86-89: asyncio.wait returns once every task is done; the
\* results are taken from the done set (in any order), sorted and printed.
\* Future.result re-raises the exception of a task that ended with one:
\* nothing catches it in update() or main(), and the loop ends.
UpdateCollect ==
  /\ loopPc = "wait"
  /\ \A n \in masters : pc[n] = "done"
  /\ IF \E n \in masters : result[n] = NoResult
     THEN /\ loopPc' = "stopped"
          /\ UNCHANGED <<masterinfos, printed, delivered>>
     ELSE /\ \E order \in Orders(masters) :
               masterinfos' = sorted([i \in 1..Cardinality(masters) |-> result[order[i]]])
          /\ printed' = html_print(masterinfos')
          /\ loopPc' = "write"
          /\ delivered' = delivered + 1
  /\ UNCHANGED <<cycle, age, sleepLeft, idle, sessionVars, cbExc, histVars>>

\* update() returns: its tasks and their MasterInfo objects are dropped, the
\* transports and protocols of its sessions stay registered with the loop;
\* main(), line 99: asyncio.sleep(10)
UpdateReturns ==
  /\ loopPc = "write"
  /\ loopPc' = "sleep"
  /\ sleepLeft' = SleepInterval
  /\ age' = 0
  /\ idle' = 0
  /\ masterinfos' = <<>>
  /\ printed' = <<>>
  /\ pc' = [n \in masters |-> "idle"]
  /\ result' = [n \in masters |-> NoResult]
  /\ stale' = [n \in masters |-> IF sock[n] THEN stale[n] + 1 ELSE stale[n]]
  /\ sock' = [n \in masters |-> FALSE]
  /\ waiter' = [n \in masters |-> Pending]
  /\ sent' = [n \in masters |-> <<>>]
  /\ first' = [n \in masters |-> NoEvent]
  /\ junk' = [n \in masters |-> FALSE]
  /\ prevFailed' = \A n \in masters : result[n].status \in {"timeout", "error"}
  /\ UNCHANGED <<cycle, elapsed, timer, cbExc, late, delivered>>

\* mutant: the loop goes on without waiting for the sleep
SleepReturnsEarly ==
  /\ loopPc = "sleep"
  /\ loopPc' = "loop"
  /\ UNCHANGED <<cycle, age, sleepLeft, masterinfos, printed, delivered, idle, sessionVars,
                 cbExc, histVars>>

\* main(), line 99 -> 97: the sleep is over
SleepReturns ==
  /\ loopPc = "sleep"
  /\ sleepLeft = 0
  /\ loopPc' = "loop"
  /\ UNCHANGED <<cycle, age, sleepLeft, masterinfos, printed, delivered, idle, sessionVars,
                 cbExc, histVars>>

\* -------------------------------------------------------- query_master()
\* line 61 raises (address resolution, socket creation): bare except
CreateFailed(n) ==
  /\ pc[n] = "creating"
  /\ pc' = [pc EXCEPT ![n] = "done"]
  /\ result' = [result EXCEPT ![n] = query_master(n, "exception", NoResult)]
  /\ first' = Note(n, "create_failed", <<>>)
  /\ UNCHANGED <<loopVars, sock, stale, waiter, elapsed, timer, sent, cbExc, junk, late, prevFailed>>

\* mutant: connection_made sends the request twice
EndpointCreatedTwice(n, sendOk) ==
  /\ pc[n] = "creating"
  /\ sock' = [sock EXCEPT ![n] = TRUE]
  /\ sent' = [sent EXCEPT ![n] = Append(Append(@, packet_count_request), packet_count_request)]
  /\ IF sendOk
     THEN /\ waiter' = [waiter EXCEPT ![n] = NewWaiter(n)]
          /\ pc' = [pc EXCEPT ![n] = "waiting"]
          /\ elapsed' = [elapsed EXCEPT ![n] = Some(0)]
          /\ timer' = [timer EXCEPT ![n] = Some(QueryTimeout)]
          /\ UNCHANGED <<result, first>>
     ELSE /\ waiter' = [waiter EXCEPT ![n] =
                FutureSet(NewWaiter(n), [st |-> "exception", info |-> NoResult]).fut]
          /\ pc' = [pc EXCEPT ![n] = "done"]
          /\ result' = [result EXCEPT ![n] = query_master(n, "exception", NoResult)]
          /\ first' = Note(n, "error_received", <<>>)
          /\ UNCHANGED <<elapsed, timer>>
  /\ UNCHANGED <<loopVars, stale, cbExc, junk, late, prevFailed>>

\* line 61 succeeds: the protocol is built, connection_made sends the request
\* and records time_start; line 62: wait_for arms the timeout.  A send that
\* fails is reported to error_received at once, and wait_for raises it.
EndpointCreated(n, sendOk) ==
  /\ pc[n] = "creating"
  /\ sock' = [sock EXCEPT ![n] = TRUE]
  /\ sent' = [sent EXCEPT ![n] = Append(@, packet_count_request)]
  /\ IF sendOk
     THEN /\ waiter' = [waiter EXCEPT ![n] = NewWaiter(n)]
          /\ pc' = [pc EXCEPT ![n] = "waiting"]
          /\ elapsed' = [elapsed EXCEPT ![n] = Some(0)]
          /\ timer' = [timer EXCEPT ![n] = Some(QueryTimeout)]
          /\ UNCHANGED <<result, first>>
     ELSE /\ waiter' = [waiter EXCEPT ![n] =
                FutureSet(NewWaiter(n), [st |-> "exception", info |-> NoResult]).fut]
          /\ pc' = [pc EXCEPT ![n] = "done"]
          /\ result' = [result EXCEPT ![n] = query_master(n, "exception", NoResult)]
          /\ first' = Note(n, "error_received", <<>>)
          /\ UNCHANGED <<elapsed, timer>>
  /\ UNCHANGED <<loopVars, stale, cbExc, junk, late, prevFailed>>

\* MasterCountProtocol.datagram_received on the session's transport; when it
\* resolves the waiter, wait_for returns the MasterInfo and cancels the timer.
\* Once the session has returned, the latency it computes is dropped with
\* the MasterInfo that set_result refuses.
DatagramReceived(n, data) ==
  /\ sock[n]
  /\ LET r == datagram_received(data, IF elapsed[n] = None THEN 0 ELSE elapsed[n][1])
         s == FutureSet(waiter[n], [st |-> "result", info |-> r.info])
     IN IF r.act = "set_result"
        THEN /\ waiter' = [waiter EXCEPT ![n] = s.fut]
             /\ cbExc' = cbExc \cup s.raised
             /\ IF s.raised = {}
                THEN /\ pc' = [pc EXCEPT ![n] = "done"]
                     /\ timer' = [timer EXCEPT ![n] = None]
                     /\ elapsed' = [elapsed EXCEPT ![n] = None]
                     /\ result' = [result EXCEPT ![n] = query_master(n, "result", s.fut.info)]
                ELSE UNCHANGED <<pc, timer, elapsed, result>>
        ELSE /\ cbExc' = IF r.act = "raise" THEN cbExc \cup {"struct.error"} ELSE cbExc
             /\ UNCHANGED <<waiter, pc, timer, elapsed, result>>
  /\ first' = IF WellFormed(data) THEN Note(n, "response", data) ELSE first
  /\ junk' = IF NonMatching(data) /\ Unresolved(n) THEN [junk EXCEPT ![n] = TRUE] ELSE junk
  /\ UNCHANGED <<loopVars, sock, stale, sent, late, prevFailed>>

\* MasterCountProtocol.error_received on the session's transport; when it
\* resolves the waiter, wait_for raises the exception into query_master
ErrorReceived(n) ==
  /\ sock[n]
  /\ LET s == FutureSet(waiter[n], [st |-> "exception", info |-> NoResult])
     IN /\ waiter' = [waiter EXCEPT ![n] = s.fut]
        /\ cbExc' = cbExc \cup s.raised
        /\ IF s.raised = {}
           THEN /\ pc' = [pc EXCEPT ![n] = "done"]
                /\ timer' = [timer EXCEPT ![n] = None]
                /\ elapsed' = [elapsed EXCEPT ![n] = None]
                /\ result' = [result EXCEPT ![n] = query_master(n, "exception", NoResult)]
           ELSE UNCHANGED <<pc, timer, elapsed, result>>
  /\ first' = Note(n, "error_received", <<>>)
  /\ UNCHANGED <<loopVars, sock, stale, sent, junk, late, prevFailed>>

\* a datagram on a transport left open by an earlier cycle: its protocol's
\* datagram_received runs against a waiter that is resolved or cancelled
StaleDatagram(n, data) ==
  /\ stale[n] > 0
  /\ LET r == datagram_received(data, 0)
         s == FutureSet(Retired, [st |-> "result", info |-> r.info])
     IN cbExc' = CASE r.act = "set_result" -> cbExc \cup s.raised
                   [] r.act = "raise" -> cbExc \cup {"struct.error"}
                   [] OTHER -> cbExc
  /\ late' = (late \/ loopPc = "wait")
  /\ UNCHANGED <<loopVars, sessionVars, first, junk, prevFailed>>

\* a transport error on a transport left open by an earlier cycle
StaleError(n) ==
  /\ stale[n] > 0
  /\ cbExc' = cbExc \cup FutureSet(Retired, [st |-> "exception", info |-> NoResult]).raised
  /\ late' = (late \/ loopPc = "wait")
  /\ UNCHANGED <<loopVars, sessionVars, first, junk, prevFailed>>

\* mutant: one timeout for the whole cycle, every waiting session is cancelled
TimeoutFiresAll(n) ==
  /\ pc[n] = "waiting"
  /\ waiter[n].st = "pending"
  /\ timer[n] = Some(0)
  /\ waiter' = [m \in masters |-> IF pc[m] = "waiting"
                                   THEN [st |-> "cancelled", info |-> NoResult] ELSE waiter[m]]
  /\ timer' = [m \in masters |-> IF pc[m] = "waiting" THEN None ELSE timer[m]]
  /\ elapsed' = [m \in masters |-> IF pc[m] = "waiting" THEN None ELSE elapsed[m]]
  /\ pc' = [m \in masters |-> IF pc[m] = "waiting" THEN "done" ELSE pc[m]]
  /\ result' = [m \in masters |-> IF pc[m] = "waiting"
                                   THEN query_master(m, "TimeoutError", NoResult) ELSE result[m]]
  /\ first' = Note(n, "timeout", <<>>)
  /\ UNCHANGED <<loopVars, sock, stale, sent, cbExc, junk, late, prevFailed>>

\* wait_for: the timeout handle runs while the waiter is pending; the
\* waiter is cancelled and TimeoutError is raised into query_master
TimeoutFires(n) ==
  /\ pc[n] = "waiting"
  /\ waiter[n].st = "pending"
  /\ timer[n] = Some(0)
  /\ waiter' = [waiter EXCEPT ![n] = [st |-> "cancelled", info |-> NoResult]]
  /\ timer' = [timer EXCEPT ![n] = None]
  /\ elapsed' = [elapsed EXCEPT ![n] = None]
  /\ pc' = [pc EXCEPT ![n] = "done"]
  /\ result' = [result EXCEPT ![n] = query_master(n, "TimeoutError", NoResult)]
  /\ first' = Note(n, "timeout", <<>>)
  /\ UNCHANGED <<loopVars, sock, stale, sent, cbExc, junk, late, prevFailed>>

\* ------------------------------------------------------------------- time
\* time advances only when the event loop has nothing ready to run
Tick ==
  /\ loopPc \in {"wait", "sleep"}
  /\ loopPc = "wait" => \E n \in masters : pc[n] # "done"
  /\ loopPc = "sleep" => sleepLeft > 0
  /\ \A n \in masters : pc[n] = "waiting" => timer[n][1] > 0
  /\ \A n \in masters : pc[n] = "creating" => age < MaxResolveDelay
  /\ age' = IF loopPc = "wait" THEN age + 1 ELSE age
  /\ sleepLeft' = IF loopPc = "sleep" THEN sleepLeft - 1 ELSE sleepLeft
  /\ idle' = IF loopPc = "sleep" THEN idle + 1 ELSE idle
  /\ elapsed' = [n \in masters |-> IF pc[n] = "waiting" THEN Some(elapsed[n][1] + 1) ELSE elapsed[n]]
  /\ timer' = [n \in masters |-> IF pc[n] = "waiting" THEN Some(timer[n][1] - 1) ELSE timer[n]]
  /\ UNCHANGED <<cycle, loopPc, masterinfos, printed, delivered, pc, sock, stale, waiter, sent,
                 result, cbExc, histVars>>

\* one call of update(), every datagram the network can deliver
Next ==
  \/ FirstUpdate
  \/ UpdateCollect
  \/ UpdateReturns
  \/ SleepReturns
  \/ \E n \in masters : CreateFailed(n)
  \/ \E n \in masters, sendOk \in BOOLEAN : EndpointCreated(n, sendOk)
  \/ \E n \in masters, data \in Datagrams : DatagramReceived(n, data)
  \/ \E n \in masters : ErrorReceived(n)
  \/ \E n \in masters, data \in Datagrams : StaleDatagram(n, data)
  \/ \E n \in masters : StaleError(n)
  \/ \E n \in masters : TimeoutFires(n)
  \/ Tick

Spec == Init /\ [][Next]_vars

\* main(): the poll loop over several cycles
LoopNext ==
  \/ StartUpdate
  \/ UpdateCollect
  \/ UpdateReturns
  \/ SleepReturns
  \/ \E n \in masters : CreateFailed(n)
  \/ \E n \in masters, sendOk \in BOOLEAN : EndpointCreated(n, sendOk)
  \/ \E n \in masters, data \in LoopDatagrams : DatagramReceived(n, data)
  \/ \E n \in masters : ErrorReceived(n)
  \/ \E n \in masters, data \in LoopDatagrams : StaleDatagram(n, data)
  \/ \E n \in masters : StaleError(n)
  \/ \E n \in masters : TimeoutFires(n)
  \/ Tick

LoopSpec == Init /\ [][LoopNext]_vars

\* ---------------------------------------------------------------- fairness
\* The event loop runs the callbacks that are ready (a finished wait, a
\* returned coroutine, a timer handle whose time has come), time goes on
\* while nothing is ready, and create_datagram_endpoint ends one way or the
\* other.  Nothing is assumed about the network: no datagram and no
\* transport error has to arrive.
\* what the event loop and the clock do on their own
Scheduled ==
  \/ Tick
  \/ UpdateCollect
  \/ UpdateReturns
  \/ SleepReturns
  \/ \E n \in masters : TimeoutFires(n)
  \/ \E n \in masters : CreateFailed(n)
  \/ \E n \in masters, sendOk \in BOOLEAN : EndpointCreated(n, sendOk)

\* one call of update() under fair scheduling
FairSpec == Spec /\ WF_vars(FirstUpdate \/ Scheduled)

\* the poll loop under fair scheduling
FairLoopSpec == LoopSpec /\ WF_vars(StartUpdate \/ Scheduled)

\* ================================================================ claims
\* the order of the registry names, written out
NameRank(n) ==
  CASE n = "master1" -> 1 [] n = "master2" -> 2 [] n = "master3" -> 3
    [] n = "master4" -> 4 [] n = "website" -> 5 [] OTHER -> 0

\* the big-endian value of the two bytes after the 14-byte prefix
BigEndian(d) == d[15] * 256 + d[16]

Absent(info) == info.server_count = None /\ info.latency = None
SessionState(n) == <<pc[n], sock[n], waiter[n], elapsed[n], timer[n], sent[n], result[n]>>
SampleBytes == {0, 1, 127, 128, 255}

\* C1: every snapshot update() produces has one entry per registry name,
\* each name exactly once, in ascending order of name
C1_SnapshotComplete ==
  loopPc = "write" =>
    /\ Len(masterinfos) = Cardinality(masters)
    /\ \A n \in masters : Cardinality({i \in 1..Len(masterinfos) : masterinfos[i].name = n}) = 1
    /\ \A i, j \in 1..Len(masterinfos) :
         i < j => NameRank(masterinfos[i].name) < NameRank(masterinfos[j].name)

C1_Witness ==
  /\ loopPc = "write"
  /\ masterinfos[1].status = "timeout"
  /\ masterinfos[Len(masterinfos)].status = "ok"
  /\ \E n \in masters : first[n].ev = "create_failed" \/ first[n].ev = "timeout"

\* C2: a session whose first resolving event is a well-formed response
\* returns status ok, the big-endian value of the two payload bytes as
\* server_count, and a latency >= 0
C2_ResponseOk ==
  /\ \A n \in masters :
       (pc[n] = "done" /\ first[n].ev = "response" /\ WellFormed(first[n].data)) =>
         /\ result[n].status = "ok"
         /\ result[n].server_count = Some(BigEndian(first[n].data))
         /\ result[n].latency # None
         /\ result[n].latency[1] >= 0
  /\ \A hi \in SampleBytes, lo \in SampleBytes :
       LET r == datagram_received(packet_count_response \o <<hi, lo>>, 0)
       IN r.act = "set_result" /\ r.info.server_count = Some(hi * 256 + lo)

C2_Witness ==
  \E n \in masters :
    /\ pc[n] = "done"
    /\ first[n].ev = "response"
    /\ result[n].server_count = Some(256)
    /\ result[n].latency = Some(1)

\* C3: a session that is resolved by its timeout returns status timeout
\* with neither a server count nor a latency
C3_TimeoutResult ==
  \A n \in masters :
    (pc[n] = "done" /\ first[n].ev = "timeout") =>
      result[n].status = "timeout" /\ Absent(result[n]) /\ result[n].name = n

C3_Witness ==
  \E n \in masters :
    pc[n] = "done" /\ first[n].ev = "timeout" /\ sock[n] /\ ~junk[n] /\ cbExc = {}

\* C4: a non-matching datagram leaves the session as it was; a session that
\* saw one is still waiting until a real response, a transport error or the
\* timeout resolves it, and then returns what that event decides
C4_JunkState ==
  \A n \in masters : junk[n] =>
    /\ pc[n] \in {"waiting", "done"}
    /\ pc[n] = "waiting" => waiter[n].st = "pending" /\ result[n] = NoResult
    /\ pc[n] = "done" =>
         \/ /\ first[n].ev = "response"
            /\ result[n].status = "ok"
            /\ result[n].server_count = Some(BigEndian(first[n].data))
         \/ first[n].ev = "timeout" /\ result[n].status = "timeout" /\ Absent(result[n])
         \/ first[n].ev = "error_received" /\ result[n].status = "error"

C4_JunkStep ==
  \A n \in masters : (junk'[n] /\ ~junk[n]) => SessionState(n)' = SessionState(n)

C4_NonMatchingIgnored == [](C4_JunkState) /\ [][C4_JunkStep]_vars

C4_Witness ==
  \E n \in masters : junk[n] /\ pc[n] = "done" /\ result[n].status = "ok"

\* C5: a returned session holds exactly one status, and no later event
\* changes the MasterInfo it returned
C5_Step ==
  \A n \in masters :
    /\ pc[n] = "done" => result[n].status \in {"ok", "timeout", "error"}
    /\ (pc[n] = "done" /\ pc'[n] = "done") => result'[n] = result[n]

C5_ResolvedOnce == [][C5_Step]_vars

C5_Witness ==
  \E n \in masters :
    pc[n] = "done" /\ result[n].status = "ok" /\ "InvalidStateError" \in cbExc

\* C6: a failure inside a session (endpoint creation, send, transport error)
\* becomes a MasterInfo with status error and the endpoint's name; every
\* finished task holds a MasterInfo, never an exception
C6_FailureContained ==
  \A n \in masters : pc[n] = "done" =>
    /\ result[n].status \in {"ok", "timeout", "error"}
    /\ result[n].name = n
    /\ first[n].ev \in {"create_failed", "error_received"} =>
         result[n].status = "error" /\ Absent(result[n])

C6_Witness ==
  /\ loopPc = "write"
  /\ \E n \in masters : first[n].ev = "error_received" /\ result[n].status = "error"
  /\ \E n \in masters : first[n].ev = "create_failed"

\* C7: a step in which one session resolves to timeout or error leaves every
\* other session as it was
C7_Step ==
  \A n \in masters :
    (pc[n] # "done" /\ pc'[n] = "done" /\ result'[n].status \in {"timeout", "error"}) =>
      \A m \in masters \ {n} : SessionState(m)' = SessionState(m) /\ first'[m] = first[m]

C7_FailureIsolated == [][C7_Step]_vars

C7_Witness ==
  \E n, m \in masters :
    /\ pc[n] = "done" /\ result[n].status = "timeout"
    /\ pc[m] = "done" /\ result[m].status = "ok" /\ result[m].latency = Some(1)

RECURSIVE SumOver(_, _)
SumOver(f, S) == IF S = {} THEN 0 ELSE LET n == CHOOSE x \in S : TRUE IN f[n] + SumOver(f, S \ {n})
OpenSockets == Cardinality({n \in masters : sock[n]}) + SumOver(stale, masters)

\* C8: every open socket belongs to a session that has not resolved yet, so
\* there are never more open sockets than registry endpoints
C8_SocketsReleased ==
  /\ \A n \in masters : sock[n] => pc[n] = "waiting"
  /\ \A n \in masters : stale[n] = 0
  /\ OpenSockets <= Cardinality(masters)

\* C9: update() starts the sessions of the next cycle only after every
\* session of this cycle has resolved, its snapshot has been delivered and
\* the sleep that began when update() returned is over
C9_State ==
  /\ (\E n \in masters : pc[n] \in {"creating", "waiting"}) => loopPc = "wait"
  /\ loopPc = "wait" => delivered = cycle - 1
  /\ loopPc = "sleep" => delivered = cycle

C9_Step ==
  cycle' # cycle =>
    /\ cycle' = cycle + 1
    /\ \A n \in masters : pc[n] \notin {"creating", "waiting"}
    /\ delivered = cycle
    /\ cycle >= 1 => idle >= SleepInterval

C9_CyclesSequential == [](C9_State) /\ [][C9_Step]_vars

C9_Witness == cycle = 2 /\ loopPc = "wait" /\ \E n \in masters : pc[n] = "waiting"

\* C10: in a later cycle the MasterInfo of an endpoint is decided by the
\* events of that cycle's session alone; an event on a socket left by an
\* earlier cycle changes no session of the current cycle
C10_OwnEvents ==
  cycle >= 2 => \A n \in masters :
    /\ pc[n] \in {"creating", "waiting"} => first[n].ev = "none" /\ result[n] = NoResult
    /\ pc[n] = "waiting" => waiter[n].st = "pending"
    /\ pc[n] = "done" =>
         /\ result[n].name = n
         /\ first[n].ev = "response" =>
              result[n].status = "ok" /\ result[n].server_count = Some(BigEndian(first[n].data))
         /\ first[n].ev = "timeout" => result[n].status = "timeout"
         /\ first[n].ev \in {"create_failed", "error_received"} =>
              result[n].status = "error"
         /\ first[n].ev # "none"

C10_LateStep == (late' /\ ~late) => sessionVars' = sessionVars

C10_CyclesIndependent == [](C10_OwnEvents) /\ [][C10_LateStep]_vars

C10_Witness ==
  /\ cycle = 2
  /\ late
  /\ prevFailed
  /\ \E n \in masters :
       /\ stale[n] > 0
       /\ \A m \in masters \ {n} : stale[m] = 0
       /\ pc[n] = "done"
       /\ result[n].status = "ok"

\* C11: no outcome of the endpoints ends the poll loop: whatever the sessions
\* of cycle N resolve to, the loop never stops, delivers the snapshot of
\* cycle N and, when the timers run, starts cycle N+1 (for every cycle the
\* model starts)
C11_Started(N) == cycle = N /\ loopPc = "wait"

C11_LoopGoesOn ==
  /\ [](loopPc \in {"loop", "wait", "write", "sleep"})
  /\ [](loopPc \in {"write", "sleep"} => delivered = cycle)
  /\ \A N \in 1..MaxCycles : C11_Started(N) ~> (delivered = N)
  /\ \A N \in 1..(MaxCycles - 1) : C11_Started(N) ~> C11_Started(N + 1)

C11_Witness ==
  /\ cycle = MaxCycles
  /\ prevFailed
  /\ loopPc = "sleep"
  /\ delivered = MaxCycles
  /\ \A n \in masters : stale[n] = 0

\* C12: every poll cycle terminates: when the timers run and endpoint
\* creation ends, every session update() started resolves to ok, timeout or
\* error, update() goes past its wait only when no session is pending, and
\* update() returns
C12_Resolved(n) == pc[n] = "done" /\ result[n].status \in {"ok", "timeout", "error"}

C12_WaitStep == (loopPc = "wait" /\ loopPc' # "wait") => \A n \in masters : C12_Resolved(n)

C12_CycleTerminates ==
  /\ \A n \in masters : (pc[n] \in {"creating", "waiting"}) ~> C12_Resolved(n)
  /\ [](loopPc = "write" => \A n \in masters : C12_Resolved(n))
  /\ [][C12_WaitStep]_vars
  /\ (loopPc = "wait") ~> (loopPc = "sleep")

C12_Witness ==
  /\ loopPc = "write"
  /\ \E n \in masters : junk[n] /\ "struct.error" \in cbExc /\ result[n].status = "timeout"
  /\ \E n \in masters : first[n].ev = "create_failed"

\* the row the renderer's contract asks for: decided by the status alone
C13_Expected(m) ==
  IF m.status = "ok"
  THEN Line("tr", <<m.name, "ok", ToString(m.server_count[1]),
                    ToString(m.latency[1] * 1000) \o "ms">>)
  ELSE Line("tr", <<m.name, m.status, "-", "-">>)

\* C13: html_print renders every MasterInfo with status ok as name, "ok",
\* its server count and its latency, a count of 0 and a latency of 0
\* included, and every other MasterInfo as name, status, "-", "-"
C13_RowByStatus ==
  loopPc = "write" =>
    /\ Len(printed) = Len(masterinfos) + 4
    /\ \A i \in 1..Len(masterinfos) : printed[i + 2] = C13_Expected(masterinfos[i])

\* what C14 calls a matching datagram: the 14-byte prefix and more than 14 bytes
C14_Matching(d) == startswith(d, packet_count_response) /\ Len(d) > Len(packet_count_response)

\* C14: a session that waits for its response resolves to ok on the first
\* matching datagram, whatever its length above 14, and that datagram ends
\* the session
C14_Step ==
  \A n \in masters, d \in Datagrams :
    (pc[n] = "waiting" /\ C14_Matching(d) /\ DatagramReceived(n, d)) =>
      pc'[n] = "done" /\ result'[n].status = "ok"

C14_MatchResolves == [][C14_Step]_vars

\* C15: a session is resolved at most QueryTimeout after update() started
\* it, in create_datagram_endpoint as well as in wait_for
C15_BoundedFromStart ==
  \A n \in masters : pc[n] \in {"creating", "waiting"} => age <= QueryTimeout

\* C16: every MasterInfo a task returns and every entry of a snapshot has
\* status ok, timeout or error, and carries a server count and a latency
\* exactly when its status is ok
C16_Entry(m) ==
  /\ m.status \in {"ok", "timeout", "error"}
  /\ m.server_count # None <=> m.status = "ok"
  /\ m.latency # None <=> m.status = "ok"

C16_StatusAndFields ==
  /\ \A n \in masters : pc[n] = "done" => C16_Entry(result[n])
  /\ loopPc = "write" => \A i \in 1..Len(masterinfos) : C16_Entry(masterinfos[i])

C16_Witness ==
  /\ loopPc = "write"
  /\ \E i \in 1..Len(masterinfos) :
       /\ masterinfos[i].status = "ok"
       /\ masterinfos[i].server_count = Some(0)
       /\ masterinfos[i].latency = Some(0)
  /\ \E i \in 1..Len(masterinfos) : masterinfos[i].status = "timeout"

\* the request packet, byte by byte: 10 x 0xFF and 'cou2'
C17_Request == <<255, 255, 255, 255, 255, 255, 255, 255, 255, 255, 99, 111, 117, 50>>

\* C17: a session hands exactly one packet to the transport, the request,
\* when its endpoint is connected and before any datagram or error is
\* processed for it; the start of the latency measurement is that moment;
\* no datagram, error or timeout makes it send again
C17_State ==
  \A n \in masters :
    /\ sent[n] \in {<<>>, <<C17_Request>>}
    /\ sock[n] <=> sent[n] = <<C17_Request>>
    /\ pc[n] \in {"idle", "creating"} => sent[n] = <<>>
    /\ (junk[n] \/ first[n].ev \in {"response", "error_received", "timeout"}) =>
         sent[n] = <<C17_Request>>

C17_Step ==
  \A n \in masters :
    /\ Len(sent'[n]) > Len(sent[n]) =>
         /\ pc[n] = "creating" /\ pc'[n] \in {"waiting", "done"}
         /\ sent[n] = <<>> /\ sent'[n] = <<C17_Request>>
         /\ pc'[n] = "waiting" => elapsed'[n] = Some(0) /\ timer'[n] = Some(QueryTimeout)
    /\ (pc[n] \in {"waiting", "done"} /\ pc'[n] \in {"waiting", "done"}) => sent'[n] = sent[n]

C17_OneRequest == [](C17_State) /\ [][C17_Step]_vars

C17_Witness ==
  \E n \in masters :
    /\ pc[n] = "done"
    /\ result[n].status = "timeout"
    /\ junk[n]
    /\ cbExc = {"struct.error", "InvalidStateError"}
    /\ sent[n] = <<C17_Request>>

\* C18: no callback assigns a waiter that is already resolved or cancelled:
\* datagram_received and error_received never raise InvalidStateError
C18_NoInvalidState == "InvalidStateError" \notin cbExc

====
